---- MODULE Spec2Model ----
(***************************************************************************)
(* Conversational routing state machine of opn_rag:                        *)
(*   app/api/chat.py                     chat, clear_session               *)
(*   app/services/conversation_service.py session store, confirmation,     *)
(*                                        clarification, finalizer         *)
(*   app/services/query_validator_service.py  query gate                   *)
(*                                                                         *)
(* chat() is a synchronous FastAPI handler, so every request runs on a     *)
(* worker thread of the server's thread pool.  A request is modelled as a  *)
(* sequence of steps of one worker; the step boundaries are the external   *)
(* calls (LLM, database) of the handler and the individual accesses to the *)
(* shared _conversations dictionary made by get_or_create_session (the     *)
(* test and the del of delete_session are taken as one step).  Session     *)
(* objects live in a heap and                                              *)
(* are referenced by the store and by the workers that fetched them.       *)
(* routed is a history variable: the session ids whose latest turn         *)
(* returned `routing` and for which no later request has got past          *)
(* get_or_create_session yet.  gated is a history variable too: the ids    *)
(* of the stored sessions with an empty history on which a turn has        *)
(* already invoked validate_query.                                         *)
(*                                                                         *)
(* config.py fixes CONVERSATION_MODE = True, so the direct-routing tail of *)
(* chat (chat.py 329-364) is unreachable and is not modelled.              *)
(***************************************************************************)
EXTENDS Integers, Sequences, FiniteSets, TLC

VARIABLES conversations, heap, th, deployment, routed, gated

vars == <<conversations, heap, th, deployment, routed, gated>>

(***************************************************************************)
(* Bounds and value domains                                                *)
(***************************************************************************)
MaxMsgs == 6
MaxMsgsPool == 6
MaxMsgsTwo == 4

Threads == {"w1", "w2"}
SessionIds == {"s1", "s2"}
ObjIds == 1..(Cardinality(SessionIds) + Cardinality(Threads))

None == "None"

Truthy(v) == v \notin {None, ""}

CONVERSATION_MODE == TRUE
QUERY_VALIDATION_ENABLED == TRUE
QUERY_VALIDATION_CONFIDENCE_THRESHOLD == 70

\* queries are character sequences
Q_Yes == <<"Y", "e", "s">>
Q_no == <<"n", "o">>
Q_mail == <<"s", "e", "n", "d", " ", "m", "a", "i", "l">>
Queries == {Q_Yes, Q_no, Q_mail}

\* the catalog (Agent and SubAgent tables)
AgentIdOf == [a \in {"Email Agent", "Document Agent"} |->
                IF a = "Email Agent" THEN "1" ELSE "2"]
SubAgentRows == {[agent_id |-> "1", name |-> "Composer", id |-> "11"]}

\* (agent, subagent) pairs the routing evaluator may name
EvalPairs == {<<None, None>>, <<"Email Agent", None>>,
              <<"Email Agent", "Composer">>, <<"Document Agent", "Composer">>,
              <<"Ghost Agent", None>>}
ClientValues == {None, "", "Acme", "Globex"}
WaveValues == {None, "", "1"}
Cand(a, s) == [agent |-> a, subagent |-> s]
\* a candidate the evaluator has written as a bare JSON string
NameOnly(n) == [string |-> n]
is_dict(cand) == "string" \notin DOMAIN cand
CandLists == {<<>>, <<Cand("Email Agent", "Composer")>>,
              <<Cand("Email Agent", "Composer"), Cand("Document Agent", None),
                Cand("Email Agent", None)>>}
\* a list of names instead of a list of objects
NameLists == {<<NameOnly("Email Agent")>>}
ConfLevels == {15, 60, 95}
SuggestedActions == {"proceed", "clarify", "reject"}

Range(f) == {f[x] : x \in DOMAIN f}

(***************************************************************************)
(* ConversationSession                                                     *)
(***************************************************************************)
ConversationSession(session_id) ==
  [session_id |-> session_id,
   messages |-> <<>>,
   clarifications_asked |-> 0,
   final_agent_id |-> None,
   final_subagent_id |-> None,
   is_finalized |-> FALSE,
   awaiting_confirmation |-> FALSE,
   pending_routing_agent |-> None,
   pending_routing_subagent |-> None,
   client_name |-> None,
   wave_number |-> None]

add_message(s, role, kind) ==
  [s EXCEPT !.messages = Append(@, [role |-> role, kind |-> kind])]

\* variant: the ids are stored but the session is not marked finalized
finalize_unmarked(s, agent_id, subagent_id) ==
  [s EXCEPT !.final_agent_id = agent_id, !.final_subagent_id = subagent_id]

\* ConversationSession.finalize
finalize(s, agent_id, subagent_id) ==
  [s EXCEPT !.final_agent_id = agent_id,
            !.final_subagent_id = subagent_id,
            !.is_finalized = TRUE]

(***************************************************************************)
(* Worker-local state of a request                                         *)
(***************************************************************************)
NoResult ==
  [type |-> None, at |-> None, agent |-> None, subagent |-> None,
   client_name |-> None, wave_number |-> None, confidence |-> 0,
   suggested_action |-> None, clarification_count |-> 0,
   suggested_agents |-> <<>>, text |-> None]

IdleThread ==
  [pc |-> "idle", session_id |-> None, query |-> <<>>, session |-> 0,
   pre |-> ConversationSession(None), should_route |-> FALSE,
   agent_name |-> None, subagent_name |-> None, matched_candidates |-> <<>>,
   saw_awaiting |-> FALSE, confirmed |-> FALSE, finalize_error |-> FALSE,
   evaluated |-> FALSE, validated |-> FALSE, revalidated |-> FALSE,
   inquired |-> FALSE,
   result |-> NoResult]

Fault(l, where) ==
  [l EXCEPT !.pc = "fault", !.result = [NoResult EXCEPT !.type = "fault", !.at = where]]

Done(l, res) == [l EXCEPT !.pc = "done", !.result = res]

Sess(t) == heap[th[t].session]

\* objects that are neither in the store nor referenced by a worker are reclaimed
Collect(h, c, tl) ==
  [o \in {p \in DOMAIN h : p \in Range(c) \/ \E t \in Threads : tl[t].session = p} |-> h[o]]

NewObj == CHOOSE o \in ObjIds \ DOMAIN heap : \A p \in ObjIds \ DOMAIN heap : o <= p

(***************************************************************************)
(* Pure helpers                                                            *)
(***************************************************************************)
LowerChar(c) ==
  CASE c = "Y" -> "y" [] c = "O" -> "o" [] c = "K" -> "k" [] OTHER -> c

Lower(q) == [i \in 1..Len(q) |-> LowerChar(q[i])]

Contains(q, kw) ==
  \E i \in 0..(Len(q) - Len(kw)) : \A j \in 1..Len(kw) : q[i + j] = kw[j]

affirmative_keywords ==
  {<<"y","e","s">>, <<"y","e","a","h">>, <<"y","e","p">>,
   <<"c","o","r","r","e","c","t">>, <<"r","i","g","h","t">>,
   <<"s","u","r","e">>, <<"o","k">>, <<"o","k","a","y">>,
   <<"a","g","r","e","e">>, <<"p","r","o","c","e","e","d">>, <<"g","o">>}

KeywordAffirmative(q) == \E kw \in affirmative_keywords : Contains(Lower(q), kw)

action_words ==
  {<<"s","e","n","d">>, <<"c","r","e","a","t","e">>, <<"m","a","k","e">>,
   <<"g","e","n","e","r","a","t","e">>, <<"w","r","i","t","e">>,
   <<"n","e","e","d">>, <<"w","a","n","t">>, <<"h","e","l","p">>,
   <<"c","a","n">>, <<"h","o","w">>, <<"w","h","a","t">>,
   <<"r","e","n","a","m","e">>, <<"o","r","g","a","n","i","z","e">>,
   <<"m","a","n","a","g","e">>}

Validation(v, c, a) == [is_valid |-> v, confidence |-> c, suggested_action |-> a]

\* queries of the model carry no leading or trailing blanks, so strip() is the identity
get_fallback_validation(q) ==
  LET query_lower == Lower(q)
      has_vowels == \E i \in 1..Len(query_lower) :
                       query_lower[i] \in {"a", "e", "i", "o", "u"}
      has_action == \E w \in action_words : Contains(query_lower, w)
  IN  IF Len(query_lower) < 3 THEN Validation(FALSE, 20, "reject")
      ELSE IF ~has_vowels THEN Validation(FALSE, 15, "reject")
      ELSE IF has_action THEN Validation(TRUE, 65, "clarify")
      ELSE Validation(TRUE, 55, "clarify")

\* what validate_query may return: the validator's parsed answer, or the fallback
validate_query(q, answers) == answers \cup {get_fallback_validation(q)}

\* variant: every name is kept
Dedup_none(s) == s

RECURSIVE Dedup(_)
Dedup(s) ==
  IF s = <<>> THEN <<>>
  ELSE LET front == Dedup(SubSeq(s, 1, Len(s) - 1))
           x == s[Len(s)]
       IN  IF x \in Range(front) THEN front ELSE Append(front, x)

\* conversation_service.py 78-82, before the try block: cand.get raises an
\* AttributeError on a candidate that is not a dictionary
candidates_text_raises(matched_candidates) ==
  \E i \in 1..Len(matched_candidates) : ~is_dict(matched_candidates[i])

\* ask_progressive_clarification from the try block on (lines 145-168): gen
\* is the generator's outcome
ask_progressive_clarification(matched_candidates, gen) ==
  IF gen = "ok"
  THEN [text |-> "generated",
        suggested_agents |->
          Dedup([i \in 1..Len(matched_candidates) |-> matched_candidates[i].agent])]
  ELSE [text |-> "fallback", suggested_agents |-> <<>>]



\* variant: the classifier is consulted whether or not a confirmation is open
is_confirmation_response_unguarded(awaiting, query, llm) ==
  IF llm = "raise" THEN KeywordAffirmative(query) ELSE llm = "yes"

\* variant: a classifier error is taken as "not affirmative"
is_confirmation_response_no_fallback(awaiting, query, llm) == awaiting /\ llm = "yes"

\* is_confirmation_response: awaiting is the flag read at line 723, llm the
\* classifier's outcome ("yes", "no" or "raise")
is_confirmation_response(awaiting, query, llm) ==
  IF awaiting
  THEN IF llm = "raise" THEN KeywordAffirmative(query) ELSE llm = "yes"
  ELSE FALSE

\* variant: the extracted value is stored even when it is empty
merge_param_overwrite(stored, extracted) == extracted

\* the merge of an extracted parameter into the session (chat.py 179-182)
merge_param(stored, extracted) == IF Truthy(extracted) THEN extracted ELSE stored

\* variant: only the client name is required
has_all_params_client_only(session) == Truthy(session.client_name)

\* chat.py 229
has_all_params(session) == Truthy(session.client_name) /\ Truthy(session.wave_number)

\* finalize_routing's catalog lookup; "error" is the {"error": ...} return
resolve_agent(agent_name) ==
  IF agent_name \in DOMAIN AgentIdOf THEN AgentIdOf[agent_name] ELSE "error"

\* variant: the subagent is looked up by name under any agent
resolve_subagent_any_agent(agent_id, subagent_name) ==
  IF Truthy(subagent_name) /\ \E r \in SubAgentRows : r.name = subagent_name
  THEN (CHOOSE r \in SubAgentRows : r.name = subagent_name).id
  ELSE None

\* conversation_service.py 691-698
resolve_subagent(agent_id, subagent_name) ==
  IF Truthy(subagent_name)
       /\ \E r \in SubAgentRows : r.agent_id = agent_id /\ r.name = subagent_name
  THEN (CHOOSE r \in SubAgentRows : r.agent_id = agent_id /\ r.name = subagent_name).id
  ELSE None

(***************************************************************************)
(* Initial states: an empty store and idle workers.  deployment names the  *)
(* setting the server runs in and never changes:                           *)
(*   "single_worker"  one worker thread and one conversation, so requests  *)
(*                    are served one after the other; the external         *)
(*                    services answer with anything in their full range    *)
(*   "worker_pool"    two worker threads serving requests of the same      *)
(*                    conversation concurrently; the external services     *)
(*                    answer from a narrower range                         *)
(*   "two_conversations"  two worker threads and two conversations, the    *)
(*                    requests of each conversation served by one of the   *)
(*                    workers; the external services answer from the       *)
(*                    narrower range                                       *)
(***************************************************************************)
workers == IF deployment = "single_worker" THEN {"w1"} ELSE Threads

clients == IF deployment = "two_conversations" THEN SessionIds ELSE {"s1"}

\* the conversations whose requests worker t serves
served(t) ==
  IF deployment = "two_conversations"
  THEN {IF t = "w1" THEN "s1" ELSE "s2"}
  ELSE clients

MsgLimit ==
  CASE deployment = "single_worker" -> MaxMsgs
    [] deployment = "worker_pool" -> MaxMsgsPool
    [] OTHER -> MaxMsgsTwo

UserQueries == IF deployment = "single_worker" THEN Queries ELSE {Q_Yes}

GenOutcomes == IF deployment = "single_worker" THEN {"ok", "empty", "raise"} ELSE {"ok"}

FullValidatorAnswers ==
  {Validation(v, c, a) : v \in BOOLEAN, c \in ConfLevels, a \in SuggestedActions}

PoolValidatorAnswers == {Validation(FALSE, 15, "reject"), Validation(TRUE, 95, "proceed")}

ValidatorAnswers ==
  IF deployment = "single_worker" THEN FullValidatorAnswers ELSE PoolValidatorAnswers

InitStore ==
  /\ conversations = <<>>
  /\ heap = <<>>
  /\ th = [t \in Threads |-> IdleThread]
  /\ routed = {}
  /\ gated = {}

\* one worker, one conversation: requests are served one after the other
Init == InitStore /\ deployment = "single_worker"

\* two workers serving the same conversation
InitConc == InitStore /\ deployment = "worker_pool"

\* two workers serving two conversations
InitTwo == InitStore /\ deployment = "two_conversations"

(***************************************************************************)
(* chat(query, session_id)                                                 *)
(***************************************************************************)
InFlight(sid) ==
  {t \in Threads : th[t].pc # "idle" /\ th[t].session_id = sid /\ th[t].result.type # "ok"}

StoredLen(sid) ==
  IF sid \in DOMAIN conversations THEN Len(heap[conversations[sid]].messages) ELSE 0

\* a request arrives (the model stops accepting requests that could push a
\* history beyond MaxMsgs)
Start(t) ==
  /\ t \in workers
  /\ th[t].pc = "idle"
  /\ \E sid \in served(t), q \in UserQueries :
       /\ StoredLen(sid) + 2 * Cardinality(InFlight(sid)) + 2 <= MsgLimit
       /\ th' = [th EXCEPT ![t] = [IdleThread EXCEPT !.pc = "get_session",
                                                     !.session_id = sid,
                                                     !.query = q]]
  /\ UNCHANGED <<conversations, heap, deployment, routed, gated>>

\* variant: a session is constructed on every call
GetSessionCheck_always_new(t) ==
  /\ th[t].pc = "get_session"
  /\ th' = [th EXCEPT ![t].pc = "gs_create"]
  /\ UNCHANGED <<conversations, heap, deployment, routed, gated>>

\* get_or_create_session, line 54: the membership test
GetSessionCheck(t) ==
  /\ th[t].pc = "get_session"
  /\ th' = [th EXCEPT ![t].pc = IF th[t].session_id \notin DOMAIN conversations
                                THEN "gs_create" ELSE "gs_return"]
  /\ UNCHANGED <<conversations, heap, deployment, routed, gated>>

\* get_or_create_session, line 55: store a new ConversationSession
GetSessionCreate(t) ==
  /\ th[t].pc = "gs_create"
  /\ LET sid == th[t].session_id
         o == NewObj
         c == [k \in DOMAIN conversations \cup {sid} |->
                 IF k = sid THEN o ELSE conversations[k]]
         h == [p \in DOMAIN heap \cup {o} |->
                 IF p = o THEN ConversationSession(sid) ELSE heap[p]]
         tl == [th EXCEPT ![t].pc = "gs_return"]
     IN  /\ conversations' = c
         /\ th' = tl
         /\ heap' = Collect(h, c, tl)
  /\ gated' = gated \ {th[t].session_id}
  /\ UNCHANGED <<deployment, routed>>

\* get_or_create_session, line 59: return _conversations[session_id]
GetSessionReturn(t) ==
  /\ th[t].pc = "gs_return"
  /\ LET sid == th[t].session_id
     IN  IF sid \in DOMAIN conversations
         THEN th' = [th EXCEPT ![t].pc = "validate",
                               ![t].session = conversations[sid],
                               ![t].pre = IF deployment = "single_worker"
                                          THEN heap[conversations[sid]]
                                          ELSE ConversationSession(None)]
         ELSE th' = [th EXCEPT ![t] = Fault(@, "get_or_create_session")]
  /\ UNCHANGED <<conversations, heap, deployment, routed, gated>>

\* variant: only an open confirmation exempts a turn from validation
skip_validation_awaiting_only(session) == session.awaiting_confirmation

\* chat.py 84-85
skip_validation(session) ==
  session.awaiting_confirmation \/ (CONVERSATION_MODE /\ Len(session.messages) > 0)

\* variant: a valid answer below the confidence threshold is rejected as well
gate_accepts_confident(validation_result) ==
  /\ validation_result.is_valid
  /\ validation_result.confidence >= QUERY_VALIDATION_CONFIDENCE_THRESHOLD

\* chat.py 96: the gate lets the turn proceed; the comparison with the
\* threshold at 117 only writes a log line
gate_accepts(validation_result) == validation_result.is_valid

\* variant: a query is rejected only when the validator also suggests rejection
ValidateWith_lenient(t, validation_result) ==
  /\ th[t].pc = "validate"
  /\ QUERY_VALIDATION_ENABLED /\ ~skip_validation(Sess(t))
  /\ LET l == [th[t] EXCEPT !.validated = TRUE,
                             !.revalidated = th[t].session_id \in gated]
     IN  IF ~gate_accepts(validation_result) /\ validation_result.suggested_action = "reject"
         THEN th' = [th EXCEPT ![t] = Done(l,
                [NoResult EXCEPT
                   !.type = "invalid_query",
                   !.confidence = validation_result.confidence,
                   !.suggested_action = validation_result.suggested_action])]
         ELSE th' = [th EXCEPT ![t] = [l EXCEPT !.pc = "inquiry"]]
  /\ gated' = IF deployment = "single_worker"
              THEN gated \cup {th[t].session_id} ELSE gated

\* chat.py 87-119: the gate is applied and validate_query returns validation_result
ValidateWith(t, validation_result) ==
  /\ th[t].pc = "validate"
  /\ QUERY_VALIDATION_ENABLED /\ ~skip_validation(Sess(t))
  /\ LET l == [th[t] EXCEPT !.validated = TRUE,
                             !.revalidated = th[t].session_id \in gated]
     IN  IF ~gate_accepts(validation_result)
         THEN th' = [th EXCEPT ![t] = Done(l,
                [NoResult EXCEPT
                   !.type = "invalid_query",
                   !.confidence = validation_result.confidence,
                   !.suggested_action = validation_result.suggested_action])]
         ELSE th' = [th EXCEPT ![t] = [l EXCEPT !.pc = "inquiry"]]
  /\ gated' = IF deployment = "single_worker"
              THEN gated \cup {th[t].session_id} ELSE gated

\* STEP 0, chat.py 84-125
Validate(t) ==
  /\ th[t].pc = "validate"
  /\ \/ \* get_all_agents_with_subagents raises
        /\ th' = [th EXCEPT ![t] = Fault(@, "get_all_agents_with_subagents")]
        /\ gated' = gated
     \/ \E validation_result \in validate_query(th[t].query, ValidatorAnswers) :
          ValidateWith(t, validation_result)
     \/ /\ ~(QUERY_VALIDATION_ENABLED /\ ~skip_validation(Sess(t)))
        /\ th' = [th EXCEPT ![t].pc = "inquiry"]
        /\ gated' = gated
  /\ routed' = routed \ {th[t].session_id}
  /\ UNCHANGED <<conversations, heap, deployment>>

\* variant: the query is appended to the history before it is answered
Inquiry_recorded(t) ==
  /\ th[t].pc = "inquiry"
  /\ \E is_agent_inquiry \in BOOLEAN :
       IF is_agent_inquiry
       THEN /\ \/ th' = [th EXCEPT ![t] = Done([@ EXCEPT !.inquired = TRUE], [NoResult EXCEPT !.type = "agent_inquiry"])]
               \/ th' = [th EXCEPT ![t] = Fault([@ EXCEPT !.inquired = TRUE], "answer_agent_inquiry")]
            /\ heap' = [heap EXCEPT ![th[t].session] = add_message(@, "user", "query")]
       ELSE /\ th' = [th EXCEPT ![t].pc = "add_user", ![t].inquired = TRUE]
            /\ heap' = heap
  /\ UNCHANGED <<conversations, deployment, routed, gated>>

\* STEP 1, chat.py 132-147: is_agent_inquiry answers False when its classifier errors
Inquiry(t) ==
  /\ th[t].pc = "inquiry"
  /\ \E is_agent_inquiry \in BOOLEAN :
       IF is_agent_inquiry
       THEN \/ th' = [th EXCEPT ![t] = Done([@ EXCEPT !.inquired = TRUE], [NoResult EXCEPT !.type = "agent_inquiry"])]
            \/ \* answer_agent_inquiry has no handler around grok_call
               th' = [th EXCEPT ![t] = Fault([@ EXCEPT !.inquired = TRUE], "answer_agent_inquiry")]
       ELSE th' = [th EXCEPT ![t].pc = "add_user", ![t].inquired = TRUE]
  /\ UNCHANGED <<conversations, heap, deployment, routed, gated>>

\* chat.py 158
AddUserMessage(t) ==
  /\ th[t].pc = "add_user"
  /\ heap' = [heap EXCEPT ![th[t].session] = add_message(@, "user", "query")]
  /\ th' = [th EXCEPT ![t].pc = "evaluate"]
  /\ gated' = gated \ {th[t].session_id}
  /\ UNCHANGED <<conversations, deployment, routed>>

(***************************************************************************)
(* STEP 2b, chat.py 176-193: the routing evaluator and the parameter merge *)
(***************************************************************************)
Decision(route, pair, client, wave, cands, conf_ok) ==
  [route |-> route, agent |-> pair[1], subagent |-> pair[2],
   client_name |-> client, wave_number |-> wave,
   matched_candidates |-> cands, confidence_ok |-> conf_ok]

\* the dictionary returned when the evaluator's answer is not JSON (line 283)
DecodeErrorDecision == Decision(FALSE, <<None, None>>, None, None, <<>>, TRUE)

\* confidence_ok is false when "confidence" is not a number, which the
\* format specification of line 192 rejects
RoutingDecisions ==
  {Decision(TRUE, p, c, w, <<>>, k) :
      p \in EvalPairs, c \in ClientValues, w \in WaveValues, k \in BOOLEAN}
  \cup {Decision(FALSE, <<None, None>>, c, w, m, TRUE) :
      c \in ClientValues, w \in WaveValues, m \in CandLists}

\* outcomes of evaluate_user_response_for_routing: grok_call raises, the
\* answer parses to a JSON value that is not an object, the answer does not
\* parse, or a decision is returned
PoolDecisions ==
  {Decision(TRUE, <<"Email Agent", None>>, c, "1", <<>>, TRUE) : c \in {None, "Acme"}}
  \cup {Decision(FALSE, <<None, None>>, None, None, <<>>, TRUE)}

OutcomesOver(decisions) ==
  {[kind |-> "raise", d |-> DecodeErrorDecision],
   [kind |-> "nondict", d |-> DecodeErrorDecision],
   [kind |-> "decode_error", d |-> DecodeErrorDecision]}
  \cup {[kind |-> "ok", d |-> d] : d \in decisions}

FullOutcomes == OutcomesOver(RoutingDecisions)

PoolOutcomes == OutcomesOver(PoolDecisions)

\* route=false with a list of names: explored with the two-conversation
\* deployment, whose histories are the shortest
NameListDecisions ==
  {Decision(FALSE, <<None, None>>, None, None, m, TRUE) : m \in NameLists}

TwoOutcomes == OutcomesOver(PoolDecisions \cup NameListDecisions)

EvalOutcomes ==
  CASE deployment = "single_worker" -> FullOutcomes
    [] deployment = "worker_pool" -> PoolOutcomes
    [] OTHER -> TwoOutcomes

EvaluateWith(t, out) ==
  /\ th[t].pc = "evaluate"
  /\ LET session == Sess(t)
         routing_decision == out.d
         merged == [session EXCEPT
                      !.client_name = merge_param(@, routing_decision.client_name),
                      !.wave_number = merge_param(@, routing_decision.wave_number)]
     IN  IF out.kind \in {"raise", "nondict"}
         THEN /\ th' = [th EXCEPT ![t] = Fault([@ EXCEPT !.evaluated = TRUE],
                                                 "evaluate_user_response_for_routing")]
              /\ heap' = heap
         ELSE /\ heap' = [heap EXCEPT ![th[t].session] = merged]
              /\ IF routing_decision.route
                 THEN IF routing_decision.confidence_ok
                      THEN th' = [th EXCEPT ![t].pc = "confirm_check",
                                            ![t].evaluated = TRUE,
                                            ![t].should_route = TRUE,
                                            ![t].agent_name = routing_decision.agent,
                                            ![t].subagent_name = routing_decision.subagent]
                      ELSE th' = [th EXCEPT ![t] = Fault([@ EXCEPT !.evaluated = TRUE],
                                                         "format_confidence")]
                 ELSE th' = [th EXCEPT ![t].pc = "clarify",
                                       ![t].evaluated = TRUE,
                                       ![t].matched_candidates =
                                          routing_decision.matched_candidates]
  /\ UNCHANGED <<conversations, deployment, routed, gated>>

\* variant: a turn waits with its evaluation while another worker, whatever
\* its conversation, is between its own evaluation and its response
EvaluateRouting_exclusive(t) ==
  /\ \A u \in Threads \ {t} :
       th[u].pc \notin {"confirm_check", "affirm", "ask_confirmation", "ask_params",
                        "finalize", "routing_message", "clarify", "ask_clarification"}
  /\ \E out \in EvalOutcomes : EvaluateWith(t, out)

EvaluateRouting(t) == \E out \in EvalOutcomes : EvaluateWith(t, out)

(***************************************************************************)
(* Confirmation gate, chat.py 196-257                                      *)
(***************************************************************************)
\* is_confirmation_response, line 723: read the awaiting_confirmation flag
ConfirmationCheck(t) ==
  /\ th[t].pc = "confirm_check"
  /\ th' = [th EXCEPT ![t].pc = "affirm",
                      ![t].saw_awaiting = Sess(t).awaiting_confirmation]
  /\ UNCHANGED <<conversations, heap, deployment, routed, gated>>

\* variant: the confirmation question is skipped when both parameters are present
AffirmativeCheck_skip(t) ==
  /\ th[t].pc = "affirm"
  /\ \E llm \in {"yes", "no", "raise"} :
       LET session == Sess(t)
           confirmed == is_confirmation_response(th[t].saw_awaiting, th[t].query, llm)
       IN  IF ~confirmed /\ ~has_all_params(session)
           THEN \* lines 198-201
                /\ heap' = [heap EXCEPT ![th[t].session] =
                              [session EXCEPT
                                 !.clarifications_asked = @ + 1,
                                 !.awaiting_confirmation = TRUE,
                                 !.pending_routing_agent = th[t].agent_name,
                                 !.pending_routing_subagent = th[t].subagent_name]]
                /\ th' = [th EXCEPT ![t].pc = "ask_confirmation"]
           ELSE IF ~has_all_params(session)
           THEN \* line 233
                /\ heap' = [heap EXCEPT ![th[t].session].awaiting_confirmation = FALSE]
                /\ th' = [th EXCEPT ![t].pc = "ask_params", ![t].confirmed = TRUE]
           ELSE \* lines 255-257
                /\ heap' = [heap EXCEPT ![th[t].session] =
                              [session EXCEPT
                                 !.awaiting_confirmation = FALSE,
                                 !.pending_routing_agent = None,
                                 !.pending_routing_subagent = None]]
                /\ th' = [th EXCEPT ![t].pc = "finalize", ![t].confirmed = confirmed]
  /\ UNCHANGED <<conversations, deployment, routed, gated>>

\* outcomes of the affirmative-intent classifier: its answer starts with
\* "yes", it does not, or the call (or the handling of its answer) raises
ClassifierOutcomes == {"yes", "no", "raise"}

\* is_confirmation_response returns, and the branch of chat.py 196-257 it selects
AffirmativeCheckWith(t, llm) ==
  /\ th[t].pc = "affirm"
  /\   LET session == Sess(t)
           confirmed == is_confirmation_response(th[t].saw_awaiting, th[t].query, llm)
       IN  IF ~confirmed
           THEN \* lines 198-201
                /\ heap' = [heap EXCEPT ![th[t].session] =
                              [session EXCEPT
                                 !.clarifications_asked = @ + 1,
                                 !.awaiting_confirmation = TRUE,
                                 !.pending_routing_agent = th[t].agent_name,
                                 !.pending_routing_subagent = th[t].subagent_name]]
                /\ th' = [th EXCEPT ![t].pc = "ask_confirmation"]
           ELSE IF ~has_all_params(session)
           THEN \* line 233
                /\ heap' = [heap EXCEPT ![th[t].session].awaiting_confirmation = FALSE]
                /\ th' = [th EXCEPT ![t].pc = "ask_params", ![t].confirmed = TRUE]
           ELSE \* lines 255-257
                /\ heap' = [heap EXCEPT ![th[t].session] =
                              [session EXCEPT
                                 !.awaiting_confirmation = FALSE,
                                 !.pending_routing_agent = None,
                                 !.pending_routing_subagent = None]]
                /\ th' = [th EXCEPT ![t].pc = "finalize", ![t].confirmed = TRUE]
  /\ UNCHANGED <<conversations, deployment, routed, gated>>

AffirmativeCheck(t) == \E llm \in ClassifierOutcomes : AffirmativeCheckWith(t, llm)

\* variant: the confirmation question is not appended to the history
AskConfirmation_unrecorded(t) ==
  /\ th[t].pc = "ask_confirmation"
  /\ \E gen \in GenOutcomes :
       /\ heap' = heap
       /\ th' = [th EXCEPT ![t] = Done(@,
                   [NoResult EXCEPT
                      !.type = "confirmation",
                      !.agent = th[t].agent_name,
                      !.subagent = th[t].subagent_name,
                      !.text = IF gen = "ok" THEN "generated" ELSE "fallback"])]
  /\ UNCHANGED <<conversations, deployment, routed, gated>>

\* chat.py 203-225: ask_routing_confirmation always yields a non-empty message
AskConfirmation(t) ==
  /\ th[t].pc = "ask_confirmation"
  /\ \E gen \in GenOutcomes :
       /\ heap' = [heap EXCEPT ![th[t].session] = add_message(@, "assistant", "confirmation")]
       /\ th' = [th EXCEPT ![t] = Done(@,
                   [NoResult EXCEPT
                      !.type = "confirmation",
                      !.agent = th[t].agent_name,
                      !.subagent = th[t].subagent_name,
                      !.text = IF gen = "ok" THEN "generated" ELSE "fallback"])]
  /\ UNCHANGED <<conversations, deployment, routed, gated>>

\* chat.py 237-246: the question for the missing parameters
AskParams(t) ==
  /\ th[t].pc = "ask_params"
  /\ \E gen \in GenOutcomes :
       LET clarification == ask_progressive_clarification(
                              <<Cand(th[t].agent_name, th[t].subagent_name)>>, gen)
       IN  /\ heap' = [heap EXCEPT ![th[t].session] =
                         add_message(@, "assistant", "clarification")]
           /\ th' = [th EXCEPT ![t] = Done(@,
                       [NoResult EXCEPT
                          !.type = "clarification",
                          !.text = clarification.text,
                          !.suggested_agents = clarification.suggested_agents])]
  /\ UNCHANGED <<conversations, deployment, routed, gated>>

(***************************************************************************)
(* Finalizer, chat.py 259-294                                              *)
(***************************************************************************)
\* finalize_routing and line 260
FinalizeRouting(t) ==
  /\ th[t].pc = "finalize"
  /\ \/ \* a database error escapes finalize_routing
        /\ th' = [th EXCEPT ![t] = Fault(@, "finalize_routing")]
        /\ heap' = heap
     \/ LET session == Sess(t)
            agent_id == resolve_agent(th[t].agent_name)
            finalized == IF agent_id = "error" THEN session
                         ELSE finalize(session, agent_id,
                                       resolve_subagent(agent_id, th[t].subagent_name))
        IN  /\ heap' = [heap EXCEPT ![th[t].session] =
                          add_message(finalized, "assistant", "routing")]
            /\ th' = [th EXCEPT ![t].pc = "routing_message",
                                ![t].finalize_error = (agent_id = "error")]
  /\ UNCHANGED <<conversations, deployment, routed, gated>>

\* variant: the entry is kept
delete_session_keep(c, sid) == c

\* variant: the store is emptied
delete_session_all(c, sid) == [k \in {} |-> c[k]]

\* conversation_service.py 62-66
delete_session(c, sid) == [k \in DOMAIN c \ {sid} |-> c[k]]

\* chat.py 263-294: generate_routing_message falls back on failure
RoutingMessage(t) ==
  /\ th[t].pc = "routing_message"
  /\ LET session == Sess(t)
         c == delete_session(conversations, session.session_id)
         tl == [th EXCEPT ![t] = Done(@,
                  [NoResult EXCEPT
                     !.type = "routing",
                     !.agent = th[t].agent_name,
                     !.subagent = th[t].subagent_name,
                     !.client_name = session.client_name,
                     !.wave_number = session.wave_number])]
     IN  /\ conversations' = c
         /\ th' = tl
         /\ heap' = Collect(heap, c, tl)
         /\ routed' = IF deployment = "single_worker"
                      THEN routed \cup {session.session_id} ELSE routed
         /\ gated' = gated \ {session.session_id}
  /\ UNCHANGED deployment

(***************************************************************************)
(* Progressive clarification, chat.py 301-327                              *)
(***************************************************************************)
\* variant: the counter is set to 1 instead of being incremented
Clarify_restart(t) ==
  /\ th[t].pc = "clarify"
  /\ heap' = [heap EXCEPT ![th[t].session].clarifications_asked = 1]
  /\ th' = [th EXCEPT ![t].pc = "ask_clarification"]
  /\ UNCHANGED <<conversations, deployment, routed, gated>>

\* line 304
Clarify(t) ==
  /\ th[t].pc = "clarify"
  /\ heap' = [heap EXCEPT ![th[t].session].clarifications_asked = @ + 1]
  /\ th' = [th EXCEPT ![t].pc = "ask_clarification"]
  /\ UNCHANGED <<conversations, deployment, routed, gated>>

\* lines 307-327
AskClarification(t) ==
  /\ th[t].pc = "ask_clarification"
  /\ IF candidates_text_raises(th[t].matched_candidates)
     THEN /\ th' = [th EXCEPT ![t] = Fault(@, "ask_progressive_clarification")]
          /\ heap' = heap
     ELSE \E gen \in GenOutcomes :
       LET clarification == ask_progressive_clarification(th[t].matched_candidates, gen)
       IN  /\ heap' = [heap EXCEPT ![th[t].session] =
                         add_message(@, "assistant", "clarification")]
           /\ th' = [th EXCEPT ![t] = Done(@,
                       [NoResult EXCEPT
                          !.type = "clarification",
                          !.text = clarification.text,
                          !.clarification_count = Sess(t).clarifications_asked,
                          !.suggested_agents = clarification.suggested_agents])]
  /\ UNCHANGED <<conversations, deployment, routed, gated>>

\* variant: the session is dropped from the store when the response is sent
Return_evict(t) ==
  /\ th[t].pc \in {"done", "fault"}
  /\ LET tl == [th EXCEPT ![t] = IdleThread]
         c == delete_session(conversations, th[t].session_id)
     IN  /\ th' = tl
         /\ conversations' = c
         /\ heap' = Collect(heap, c, tl)
  /\ UNCHANGED <<deployment, routed, gated>>

\* the response (or the error) is sent and the worker is free again
Return(t) ==
  /\ th[t].pc \in {"done", "fault"}
  /\ LET tl == [th EXCEPT ![t] = IdleThread]
     IN  /\ th' = tl
         /\ heap' = Collect(heap, conversations, tl)
  /\ UNCHANGED <<conversations, deployment, routed, gated>>

\* POST /chat/clear-session, served by a free worker: chat.py 372-375
ClearSession ==
  /\ \E t \in workers :
     \E sid \in served(t) :
       /\ th[t].pc = "idle"
       /\ LET c == delete_session(conversations, sid)
              tl == [th EXCEPT ![t] = Done([IdleThread EXCEPT !.session_id = sid],
                                           [NoResult EXCEPT !.type = "ok"])]
          IN  /\ conversations' = c
              /\ th' = tl
              /\ heap' = Collect(heap, c, tl)
       /\ gated' = gated \ {sid}
  /\ UNCHANGED <<deployment, routed>>

Step(t) ==
  \/ Start(t)
  \/ GetSessionCheck(t)
  \/ GetSessionCreate(t)
  \/ GetSessionReturn(t)
  \/ Validate(t)
  \/ Inquiry(t)
  \/ AddUserMessage(t)
  \/ EvaluateRouting(t)
  \/ ConfirmationCheck(t)
  \/ AffirmativeCheck(t)
  \/ AskConfirmation(t)
  \/ AskParams(t)
  \/ FinalizeRouting(t)
  \/ RoutingMessage(t)
  \/ Clarify(t)
  \/ AskClarification(t)
  \/ Return(t)

Next == (\E t \in Threads : Step(t)) \/ ClearSession

Spec == Init /\ [][Next]_vars

SpecConc == InitConc /\ [][Next]_vars

SpecTwo == InitTwo /\ [][Next]_vars

(***************************************************************************)
(* Properties                                                              *)
(***************************************************************************)
Finished(t) == th[t].pc \in {"done", "fault"} /\ th[t].session # 0

Routed(t) == th[t].pc = "done" /\ th[t].result.type = "routing"

Finalizing(t) == th[t].pc \in {"finalize", "routing_message"} \/ Routed(t)

\* C1: a turn reaches the Finalizer and returns `routing` only if the session
\* was awaiting confirmation when the turn started and the query was
\* classified as an affirmative confirmation response.
C1_RoutingOnlyOnAffirmedConfirmation ==
  \A t \in Threads :
    Finalizing(t) => th[t].pre.awaiting_confirmation /\ th[t].confirmed

C1_Witness == \E t \in Threads : Routed(t) /\ th[t].pre.awaiting_confirmation

\* C2: while a turn is finalizing (from the call of finalize_routing to the
\* `routing` result) the session's client_name and wave_number are both
\* non-empty, and so are the two values of the routing payload.
C2_FinalizeOnlyWithParams ==
  \A t \in Threads :
    Finalizing(t) =>
      /\ Truthy(Sess(t).client_name) /\ Truthy(Sess(t).wave_number)
      /\ Routed(t) => Truthy(th[t].result.client_name) /\ Truthy(th[t].result.wave_number)

C2_Witness ==
  \E t \in Threads : th[t].pc = "finalize" /\ has_all_params(Sess(t))

\* C3: the pair written into the routing payload is the pair stored as
\* pending by the confirmation prompt the user has just affirmed.
C3_FinalizesConfirmedPair ==
  \A t \in Threads :
    Routed(t) =>
      /\ th[t].result.agent = th[t].pre.pending_routing_agent
      /\ th[t].result.subagent = th[t].pre.pending_routing_subagent

\* C4: two concurrent turns on the same session never both finalize it.
C4_AtMostOneFinalization ==
  \A t1, t2 \in Threads :
    (t1 # t2 /\ Routed(t1) /\ Routed(t2)) => th[t1].session # th[t2].session

\* C5: when finalize_routing does not find the agent, the turn does not
\* return `routing` and the session stays in the store, not finalized.
C5_UnknownAgentFailsTurn ==
  \A t \in Threads :
    (th[t].pc = "done" /\ th[t].finalize_error) =>
      /\ th[t].result.type # "routing"
      /\ th[t].session_id \in DOMAIN conversations
      /\ conversations[th[t].session_id] = th[t].session
      /\ ~Sess(t).is_finalized

\* C6: a turn that ends in a failed external call leaves the session exactly
\* as it was when the turn started.
C6_FailedCallLeavesSessionUnchanged ==
  \A t \in Threads :
    (th[t].pc = "fault" /\ th[t].session # 0) => Sess(t) = th[t].pre

\* C7: no failure of an external capability reaches the caller of chat: a
\* turn never ends in a fault raised by the inquiry answerer or by the
\* routing evaluator (or by the handling of its output).
CapabilityCalls ==
  {"answer_agent_inquiry", "evaluate_user_response_for_routing", "format_confidence"}

C7_CapabilityFailuresRecovered ==
  \A t \in Threads : th[t].pc = "fault" => th[t].result.at \notin CapabilityCalls

\* the decision the evaluator returned to worker t in this step, if it
\* extracted client_name c and wave_number w: the other fields are the ones
\* the worker has kept
ReturnedDecision(t, c, w) ==
  Decision(th'[t].pc = "confirm_check", <<th'[t].agent_name, th'[t].subagent_name>>,
           c, w, th'[t].matched_candidates, TRUE)

\* C8: a routing evaluation stores the evaluator's client_name (wave_number)
\* when it is non-empty and leaves the stored value alone otherwise; a
\* non-empty stored value never becomes empty while the session lives.
C8_StickyMerge ==
  [][ /\ \A t \in Threads :
           (th[t].pc = "evaluate" /\ th'[t].pc \in {"confirm_check", "clarify"}) =>
             \A c \in ClientValues, w \in WaveValues :
               EvaluateWith(t, [kind |-> "ok", d |-> ReturnedDecision(t, c, w)]) =>
                 /\ heap'[th[t].session].client_name =
                      IF Truthy(c) THEN c ELSE heap[th[t].session].client_name
                 /\ heap'[th[t].session].wave_number =
                      IF Truthy(w) THEN w ELSE heap[th[t].session].wave_number
      /\ \A o \in DOMAIN heap \cap DOMAIN heap' :
           /\ Truthy(heap[o].client_name) => Truthy(heap'[o].client_name)
           /\ Truthy(heap[o].wave_number) => Truthy(heap'[o].wave_number)
    ]_vars

C8_Witness ==
  \E t \in Threads :
    /\ th[t].pc \in {"confirm_check", "clarify"}
    /\ Truthy(th[t].pre.client_name) /\ Truthy(th[t].pre.wave_number)
    /\ Sess(t).client_name # th[t].pre.client_name

\* C9: clarifications_asked of a live session never decreases.
C9_CounterNeverDecreases ==
  [][ \A o \in DOMAIN heap \cap DOMAIN heap' :
        heap'[o].clarifications_asked >= heap[o].clarifications_asked ]_vars

C9_Witness ==
  \E t \in Threads :
    /\ th[t].pc = "ask_clarification"
    /\ th[t].pre.clarifications_asked >= 1
    /\ Sess(t).clarifications_asked = th[t].pre.clarifications_asked + 1

\* C10: a turn that returns `clarification` or `confirmation` raises
\* clarifications_asked by exactly one, and every other turn leaves it alone.
C10_PromptsCountOnce ==
  \A t \in Threads :
    Finished(t) =>
      Sess(t).clarifications_asked =
        th[t].pre.clarifications_asked
          + (IF th[t].result.type \in {"clarification", "confirmation"} THEN 1 ELSE 0)

\* C11: when a turn has returned `routing` the session id is no longer in
\* the store, and the next request with that id, once it has its session,
\* holds a newly constructed one (no history, clarifications_asked 0, not
\* awaiting confirmation, no parameters, not finalized) that is the store's
\* entry for the id.
C11_FreshSessionAfterRouting ==
  \A t \in Threads :
    /\ Routed(t) => th[t].session_id \notin DOMAIN conversations
    /\ (th[t].pc = "validate" /\ th[t].session_id \in routed) =>
         /\ th[t].session_id \in DOMAIN conversations
         /\ conversations[th[t].session_id] = th[t].session
         /\ Sess(t) = ConversationSession(th[t].session_id)
         /\ th[t].pre = ConversationSession(th[t].session_id)

C11_Witness ==
  \E t \in Threads :
    /\ th[t].pc = "validate" /\ th[t].session_id \in routed
    /\ Sess(t).messages = <<>> /\ Sess(t).clarifications_asked = 0

\* the kind of the last assistant message of a history, None when there is none
RECURSIVE LastAssistantKind(_)
LastAssistantKind(messages) ==
  IF messages = <<>> THEN None
  ELSE IF messages[Len(messages)].role = "assistant" THEN messages[Len(messages)].kind
  ELSE LastAssistantKind(SubSeq(messages, 1, Len(messages) - 1))

\* number of messages of a kind in a history
RECURSIVE CountKind(_, _)
CountKind(messages, kind) ==
  IF messages = <<>> THEN 0
  ELSE CountKind(SubSeq(messages, 1, Len(messages) - 1), kind)
         + (IF messages[Len(messages)].kind = kind THEN 1 ELSE 0)

\* C12: a session that is awaiting confirmation has a pending routing agent.
C12_AwaitingHasPendingAgent ==
  \A o \in DOMAIN heap :
    heap[o].awaiting_confirmation => heap[o].pending_routing_agent # None

\* C13: when a turn has ended and the session is not awaiting confirmation,
\* pending_routing_agent and pending_routing_subagent are both None.
C13_PendingClearedWhenNotAwaiting ==
  \A t \in Threads :
    (Finished(t) /\ ~Sess(t).awaiting_confirmation) =>
      /\ Sess(t).pending_routing_agent = None
      /\ Sess(t).pending_routing_subagent = None

\* C14: when a turn has returned and the session is awaiting confirmation,
\* the last assistant message of the history is a confirmation question; in
\* particular a turn that started with a confirmation open and returned a
\* clarification question leaves the session not awaiting confirmation.
C14_AwaitingOnlyAfterConfirmationQuestion ==
  \A t \in Threads :
    (th[t].pc = "done" /\ th[t].session # 0) =>
      /\ Sess(t).awaiting_confirmation =>
           LastAssistantKind(Sess(t).messages) = "confirmation"
      /\ (th[t].pre.awaiting_confirmation /\ th[t].result.type = "clarification") =>
           ~Sess(t).awaiting_confirmation

\* C15: when a turn returns `routing`, exactly one confirmation question has
\* been issued in the life of the session.
C15_ExactlyOneConfirmation ==
  \A t \in Threads :
    Routed(t) => CountKind(Sess(t).messages, "confirmation") = 1

InStore(t) ==
  /\ th[t].session_id \in DOMAIN conversations
  /\ conversations[th[t].session_id] = th[t].session

LastMessage(session) == session.messages[Len(session.messages)]

\* C16: a turn that starts with a confirmation open for a catalog agent and
\* both parameters stored, and whose query is an affirmative reply (it carries an affirmative
\* keyword and the classifier, when consulted, accepted it), returns
\* `routing` with the confirmation flag and the pending fields cleared,
\* whatever the routing evaluator returned.
C16_AffirmedCompleteAlwaysRoutes ==
  \A t \in Threads :
    ( /\ th[t].pc = "done" /\ th[t].evaluated
      /\ th[t].pre.awaiting_confirmation /\ has_all_params(th[t].pre)
      /\ th[t].pre.pending_routing_agent \in DOMAIN AgentIdOf
      /\ KeywordAffirmative(th[t].query)
      /\ th[t].should_route => th[t].confirmed ) =>
        /\ Routed(t)
        /\ ~Sess(t).awaiting_confirmation
        /\ Sess(t).pending_routing_agent = None
        /\ Sess(t).pending_routing_subagent = None

\* C17: a turn that starts with a confirmation open for a catalog agent and
\* whose reply is accepted as affirmative while client_name or wave_number is
\* missing returns `clarification` without finalizing: awaiting_confirmation
\* is False, the question is the last history entry, the session is still the
\* store's entry, and the only candidate offered is the pending route.
C17_AffirmedIncompleteAsksParams ==
  \A t \in Threads :
    ( /\ th[t].pc = "done" /\ th[t].confirmed
      /\ th[t].pre.awaiting_confirmation /\ ~has_all_params(Sess(t))
      /\ th[t].pre.pending_routing_agent \in DOMAIN AgentIdOf ) =>
        /\ th[t].result.type = "clarification"
        /\ ~Sess(t).awaiting_confirmation /\ ~Sess(t).is_finalized
        /\ InStore(t)
        /\ LastMessage(Sess(t)) = [role |-> "assistant", kind |-> "clarification"]
        /\ th[t].result.text = "generated" =>
             th[t].result.suggested_agents = <<th[t].pre.pending_routing_agent>>

\* worker t is serving a turn that started with no confirmation open and
\* for which the evaluator returned route=true
RouteFromNone(t) == th[t].should_route /\ ~th[t].pre.awaiting_confirmation

Unrecognized(t) ==
  th[t].evaluated /\ th[t].pre.awaiting_confirmation /\ ~th[t].confirmed

\* C19: a turn that starts with a confirmation open and whose reply is not
\* recognized as a confirmation never reaches the parameter question or the
\* Finalizer; it returns `confirmation` when the evaluator returned
\* route=true and `clarification` when it returned route=false, and the
\* session stays in the store, not finalized.
C19_UnrecognizedReplyIsOrdinaryTurn ==
  \A t \in Threads :
    Unrecognized(t) =>
      /\ th[t].pc \notin {"ask_params", "finalize", "routing_message"}
      /\ th[t].pc = "done" =>
           /\ th[t].result.type =
                IF th[t].should_route THEN "confirmation" ELSE "clarification"
           /\ ~Sess(t).is_finalized
           /\ InStore(t)

C19_Witness ==
  \E t \in Threads :
    /\ Unrecognized(t) /\ th[t].pc = "done" /\ th[t].should_route
    /\ has_all_params(Sess(t)) /\ th[t].result.type = "confirmation"

\* worker t has classified its query as an agent inquiry and the turn is over
InquiryTurn(t) ==
  \/ th[t].pc = "done" /\ th[t].result.type = "agent_inquiry"
  \/ th[t].pc = "fault" /\ th[t].result.at = "answer_agent_inquiry"

\* C20: a turn classified as an agent inquiry ends without the routing
\* evaluator having been called and with the session as it was when the turn
\* got it: same history, counter, confirmation flag, pending fields and
\* parameters.
C20_InquiryLeavesSessionUnchanged ==
  \A t \in Threads :
    InquiryTurn(t) => Sess(t) = th[t].pre /\ ~th[t].evaluated

C20_Witness ==
  \E t \in Threads :
    /\ th[t].pc = "done" /\ th[t].result.type = "agent_inquiry"
    /\ th[t].pre.awaiting_confirmation /\ Len(th[t].pre.messages) > 0
    /\ Truthy(th[t].pre.client_name)

\* worker t is serving a turn that has passed the query gate's decision
GateDecided(t) ==
  /\ th[t].session # 0
  /\ th[t].pc \notin {"idle", "get_session", "gs_create", "gs_return", "validate"}
  /\ ~(th[t].pc = "fault" /\ th[t].result.at = "get_all_agents_with_subagents")

FreshAtStart(t) == th[t].pre.messages = <<>> /\ ~th[t].pre.awaiting_confirmation

\* C21: validate_query is invoked on a turn exactly when the session had an
\* empty history and no open confirmation at the start of the turn; a turn
\* on a session with history or an open confirmation never returns
\* `invalid_query`.
C21_GateOnlyOnFreshSession ==
  \A t \in Threads :
    GateDecided(t) =>
      /\ th[t].validated <=> FreshAtStart(t)
      /\ th[t].result.type = "invalid_query" => FreshAtStart(t)

C21_Witness ==
  \E t \in Threads :
    /\ GateDecided(t) /\ th[t].pc = "done" /\ ~th[t].validated
    /\ Len(th[t].pre.messages) > 0 /\ ~th[t].pre.awaiting_confirmation
    /\ ~get_fallback_validation(th[t].query).is_valid

ValidationsOf(t) == validate_query(th[t].query, FullValidatorAnswers)

\* C23: when the gate is applied and validate_query returns is_valid false,
\* the turn ends there with `invalid_query` carrying the validator's
\* confidence and suggested action; the session is as it was when the turn
\* got it, and neither the inquiry classifier nor the routing evaluator has
\* been called.
C23_RejectedQueryEndsTurn ==
  [][ \A t \in Threads :
        /\ th[t].pc = "validate" =>
             \A v \in ValidationsOf(t) :
               (~v.is_valid /\ ValidateWith(t, v)) =>
                 /\ th'[t].pc = "done"
                 /\ th'[t].result.type = "invalid_query"
                 /\ th'[t].result.confidence = v.confidence
                 /\ th'[t].result.suggested_action = v.suggested_action
                 /\ heap' = heap /\ conversations' = conversations
        /\ (th[t].pc = "done" /\ th[t].result.type = "invalid_query") =>
             /\ Sess(t) = th[t].pre
             /\ th[t].validated /\ ~th[t].inquired /\ ~th[t].evaluated
    ]_vars

C23_Witness ==
  \E t \in Threads :
    /\ th[t].pc = "done" /\ th[t].result.type = "invalid_query"
    /\ th[t].result.confidence = 60 /\ th[t].result.suggested_action = "clarify"

EntriesKept ==
  \A sid \in DOMAIN conversations \cap DOMAIN conversations' :
    conversations'[sid] = conversations[sid]

\* C25: a call of get_or_create_session for an id that is in the store
\* constructs nothing and returns the stored object as it is, and that object
\* is the one the earlier call returned: a turn writes to the store's object,
\* and the store's object is never replaced while its id stays in the store.
C25_GetOrCreateReturnsStoredSession ==
  [][ /\ EntriesKept
      /\ \A t \in Threads :
           LET sid == th[t].session_id IN
           /\ (th[t].session # 0 /\ ~Routed(t)) => InStore(t)
           /\ (sid \in DOMAIN conversations /\ th'[t].pc # th[t].pc) =>
                /\ th[t].pc = "get_session" =>
                     /\ th'[t].pc = "gs_return"
                     /\ heap' = heap /\ conversations' = conversations
                /\ th[t].pc = "gs_return" =>
                     /\ th'[t].session = conversations[sid]
                     /\ th'[t].pre = heap[conversations[sid]]
                     /\ heap' = heap /\ conversations' = conversations
    ]_vars

C25_Witness ==
  \E t \in Threads :
    /\ th[t].pc = "validate" /\ InStore(t)
    /\ Len(Sess(t).messages) > 0 /\ Sess(t).clarifications_asked > 0
    /\ Truthy(Sess(t).client_name)

\* worker t takes a clear-session request in this step
ClearServed(t) == th[t].pc = "idle" /\ th'[t].pc = "done"

\* C26: delete_session on an id that is not in the store leaves the store as
\* it is, on an id that is in the store it removes that entry and no other,
\* and deleting twice is deleting once; a clear-session request can always
\* be served, changes the store by delete_session only, and is answered with
\* status ok.
C26_DeleteIdempotentAndTotal ==
  [][ /\ \A sid \in SessionIds :
           LET d == delete_session(conversations, sid) IN
           /\ DOMAIN d = DOMAIN conversations \ {sid}
           /\ \A k \in DOMAIN d : d[k] = conversations[k]
           /\ delete_session(d, sid) = d
           /\ sid \notin DOMAIN conversations => d = conversations
      /\ (\E t \in workers : th[t].pc = "idle") => ENABLED ClearSession
      /\ \A t \in Threads :
           ClearServed(t) =>
             LET sid == th'[t].session_id IN
             /\ th'[t].result.type = "ok"
             /\ DOMAIN conversations' = DOMAIN conversations \ {sid}
             /\ \A k \in DOMAIN conversations' :
                  /\ conversations'[k] = conversations[k]
                  /\ heap'[conversations'[k]] = heap[conversations[k]]
    ]_vars

C26_Witness ==
  \E t \in Threads :
    /\ th[t].pc = "done" /\ th[t].result.type = "ok"
    /\ th[t].session_id \notin DOMAIN conversations
    /\ \E k \in DOMAIN conversations : Len(heap[conversations[k]].messages) > 0

\* C27: with two workers calling get_or_create_session for the same id, a
\* worker that has obtained the stored session keeps holding the store's
\* object when the other worker's call stores its session: both hold the
\* same object and what either writes is kept.
C27_ConcurrentGetOrCreateSafe ==
  [][ \A t, u \in Threads :
        ( /\ th[t].pc = "gs_create" /\ th'[t].pc = "gs_return"
          /\ th[u].session # 0 /\ th[u].session_id = th[t].session_id
          /\ InStore(u) ) =>
            th[u].session = conversations'[th[u].session_id]
    ]_vars

\* the worker is waiting for an external service (LLM or database)
AtExternalCall(t) ==
  th[t].pc \in {"validate", "inquiry", "evaluate", "affirm", "ask_confirmation",
                "ask_params", "finalize", "routing_message", "ask_clarification"}

\* C28: a step of a request for one id leaves the store entry and the
\* session stored under every other id as they are, the session a worker
\* holds is one of the id it serves, and a turn in progress always has a
\* step it can take, whatever the other worker is waiting for.
C28_ConversationsIndependent ==
  [][ \A t \in Threads :
        /\ th[t].session # 0 => Sess(t).session_id = th[t].session_id
        /\ th[t].pc # "idle" => ENABLED Step(t)
        /\ th'[t] # th[t] =>
             \A sid \in DOMAIN conversations \ {th[t].session_id, th'[t].session_id} :
               /\ sid \in DOMAIN conversations'
               /\ conversations'[sid] = conversations[sid]
               /\ heap'[conversations[sid]] = heap[conversations[sid]]
    ]_vars

C28_Witness ==
  \E t, u \in Threads :
    /\ th[t].session_id = "s1" /\ th[u].session_id = "s2"
    /\ th[t].pc = "evaluate" /\ AtExternalCall(t)
    /\ th[u].pc = "evaluate" /\ InStore(u)
    /\ Sess(u).awaiting_confirmation

\* the finalized fields of a session object
FinalFields(s) == <<s.final_agent_id, s.final_subagent_id, s.is_finalized>>

\* C29: the finalized fields of a session change only in the step of
\* finalize_routing, and only on a session that is not finalized yet; when no
\* turn is in progress on an id the session stored under it has is_finalized
\* = false and null final ids; and the session a chat turn removes from the
\* store (chat.py 278), after the user has confirmed the agent the turn
\* routes to, has is_finalized = true.
C29_LiveOrFinalizedAndRemoved ==
  [][ /\ \A o \in DOMAIN heap \cap DOMAIN heap' :
           FinalFields(heap'[o]) # FinalFields(heap[o]) =>
             /\ ~heap[o].is_finalized
             /\ \E t \in Threads :
                  /\ th[t].session = o
                  /\ th[t].pc = "finalize" /\ th'[t].pc = "routing_message"
      /\ \A sid \in DOMAIN conversations' :
           (\A t \in Threads :
              th'[t].pc = "idle" \/ th'[t].session_id # sid \/ th'[t].result.type = "ok") =>
             FinalFields(heap'[conversations'[sid]]) = <<None, None, FALSE>>
      /\ \A t \in Threads :
           ( /\ th[t].pc = "routing_message" /\ th'[t].pc = "done"
             /\ Truthy(th[t].agent_name)
             /\ th[t].agent_name = th[t].pre.pending_routing_agent ) =>
             /\ th[t].session_id \in DOMAIN conversations
             /\ th[t].session_id \notin DOMAIN conversations'
             /\ Sess(t).is_finalized
    ]_vars

\* finalize_routing has returned to worker t after finding the agent but no
\* subagent of that name under it
SubagentNotFound(t) ==
  /\ th[t].pc = "routing_message" \/ Routed(t)
  /\ th[t].agent_name \in DOMAIN AgentIdOf
  /\ Truthy(th[t].subagent_name)
  /\ ~\E r \in SubAgentRows :
        r.agent_id = AgentIdOf[th[t].agent_name] /\ r.name = th[t].subagent_name

\* C30: when finalize_routing finds the agent but no subagent of the given
\* name under it, the session is finalized with the agent's id and
\* final_subagent_id = None, no error is returned, and the turn returns
\* `routing` with the pair it was given.
C30_MissingSubagentDegrades ==
  \A t \in Threads :
    SubagentNotFound(t) =>
      /\ Sess(t).is_finalized
      /\ Sess(t).final_agent_id = AgentIdOf[th[t].agent_name]
      /\ Sess(t).final_subagent_id = None
      /\ ~th[t].finalize_error
      /\ th[t].pc = "done" =>
           /\ th[t].result.type = "routing"
           /\ th[t].result.agent = th[t].agent_name
           /\ th[t].result.subagent = th[t].subagent_name

C30_Witness ==
  \E t \in Threads :
    /\ SubagentNotFound(t) /\ Routed(t)
    /\ th[t].agent_name = "Document Agent" /\ th[t].subagent_name = "Composer"
    /\ th[t].session_id \notin DOMAIN conversations

\* C31: ask_progressive_clarification never raises and its question is never
\* empty: every step of a turn that calls it (chat.py 237 and 307) ends the
\* turn with a `clarification` result whose response is the generated text
\* or the fixed fallback question.
C31_ClarificationNeverEmpty ==
  [][ \A t \in Threads :
        (th[t].pc \in {"ask_params", "ask_clarification"} /\ th'[t] # th[t]) =>
          /\ th'[t].pc = "done"
          /\ th'[t].result.type = "clarification"
          /\ th'[t].result.text \in {"generated", "fallback"}
    ]_vars

\* the agent names of the candidates worker t passes at chat.py 307
CandidateAgents(t) ==
  [i \in 1..Len(th[t].matched_candidates) |-> th[t].matched_candidates[i].agent]

\* position of the first occurrence of x in s
FirstIndex(s, x) == CHOOSE i \in 1..Len(s) : s[i] = x /\ \A j \in 1..(i - 1) : s[j] # x

\* C32: the suggested_agents returned with a generated disambiguation
\* question hold every candidate's agent name exactly once, in the order of
\* the names' first occurrences in matched_candidates.
C32_SuggestedAgentsDeduplicated ==
  [][ \A t \in Threads :
        ( /\ th[t].pc = "ask_clarification" /\ th'[t].pc = "done"
          /\ th'[t].result.text = "generated" ) =>
            LET names == CandidateAgents(t)
                suggested == th'[t].result.suggested_agents
            IN  /\ \A i, j \in 1..Len(suggested) : i # j => suggested[i] # suggested[j]
                /\ Range(suggested) = Range(names)
                /\ \A i, j \in 1..Len(suggested) :
                     i < j => FirstIndex(names, suggested[i]) < FirstIndex(names, suggested[j])
    ]_vars

C32_Witness ==
  \E t \in Threads :
    /\ th[t].pc = "done" /\ th[t].result.type = "clarification" /\ ~th[t].should_route
    /\ Len(th[t].matched_candidates) = 3
    /\ th[t].matched_candidates[1].agent = th[t].matched_candidates[3].agent
    /\ th[t].result.suggested_agents = <<"Email Agent", "Document Agent">>

\* the keywords the fallback looks for, as the claim lists them
FallbackKeywords ==
  {<<"y","e","s">>, <<"y","e","a","h">>, <<"y","e","p">>,
   <<"c","o","r","r","e","c","t">>, <<"r","i","g","h","t">>,
   <<"s","u","r","e">>, <<"o","k">>, <<"o","k","a","y">>,
   <<"a","g","r","e","e">>, <<"p","r","o","c","e","e","d">>, <<"g","o">>}

\* is_confirmation_response returned true to worker t in this step: chat.py
\* 196 takes the branch of lines 206-294
ReturnedTrue(t) == th'[t].pc \in {"ask_params", "finalize"}

\* C33: is_confirmation_response never raises.  On a session that is not
\* awaiting confirmation it returns false whatever the classifier would
\* answer; on one that is, it returns the classifier's verdict and, when the
\* classifier raises, true exactly when the lower-cased query contains one
\* of the fixed keywords.
C33_ConfirmationResponseTotal ==
  [][ \A t \in Threads :
        (th[t].pc = "affirm" /\ th'[t] # th[t]) =>
          /\ th'[t].pc \in {"ask_confirmation", "ask_params", "finalize"}
          /\ ~th[t].saw_awaiting =>
               /\ ~ReturnedTrue(t)
               /\ \A llm \in ClassifierOutcomes : AffirmativeCheckWith(t, llm)
          /\ th[t].saw_awaiting =>
               \A llm \in ClassifierOutcomes :
                 AffirmativeCheckWith(t, llm) =>
                   ReturnedTrue(t) =
                     CASE llm = "yes" -> TRUE
                       [] llm = "no" -> FALSE
                       [] OTHER -> \E kw \in FallbackKeywords :
                                     Contains(Lower(th[t].query), kw)
    ]_vars

\* the function has returned false on "no" while a confirmation was open
C33_Witness ==
  \E t \in Threads :
    /\ th[t].pc = "ask_confirmation" /\ th[t].saw_awaiting /\ th[t].query = Q_no
    /\ th[t].pre.awaiting_confirmation /\ Sess(t).clarifications_asked >= 2

\* C34: a turn whose evaluator returned route=false (or output that is not
\* JSON) raises clarifications_asked by one and ends with a `clarification`
\* result carrying the new count; its session is still the one in the store,
\* not finalized, and awaiting_confirmation is true afterwards only if it
\* was true before the turn.
C34_NoRouteAsksClarification ==
  [][ \A t \in Threads :
        /\ (th[t].pc = "clarify" /\ th'[t] # th[t]) =>
             /\ th'[t].pc = "ask_clarification"
             /\ heap'[th[t].session].clarifications_asked =
                  th[t].pre.clarifications_asked + 1
        /\ (th[t].pc = "ask_clarification" /\ th'[t] # th[t]) =>
             /\ th'[t].pc = "done"
             /\ th'[t].result.type = "clarification"
             /\ th'[t].result.clarification_count = th[t].pre.clarifications_asked + 1
             /\ th[t].session_id \in DOMAIN conversations'
             /\ conversations'[th[t].session_id] = th[t].session
             /\ ~heap'[th[t].session].is_finalized
             /\ heap'[th[t].session].awaiting_confirmation =>
                  th[t].pre.awaiting_confirmation
    ]_vars

\* C35: the entry of a session id leaves the store, or is given another
\* object, only in the step of a turn on that id that returns `routing`
\* (chat.py 278) or in a clear-session request for that id; every other step,
\* of any turn on any id, keeps it.
C35_RemovedOnlyByRoutingOrClear ==
  [][ \A sid \in DOMAIN conversations :
        (sid \notin DOMAIN conversations' \/ conversations'[sid] # conversations[sid]) =>
          /\ sid \notin DOMAIN conversations'
          /\ \E t \in Threads :
               /\ th'[t].session_id = sid
               /\ \/ /\ th[t].pc = "routing_message" /\ th[t].session_id = sid
                     /\ th'[t].pc = "done" /\ th'[t].result.type = "routing"
                  \/ /\ ClearServed(t) /\ th'[t].result.type = "ok"
    ]_vars

\* one conversation has been routed and removed while the other, left after
\* its first question, is still in the store
C35_Witness ==
  \E t \in Threads :
    /\ Routed(t) /\ th[t].session_id \notin DOMAIN conversations
    /\ \E sid \in DOMAIN conversations :
         /\ InFlight(sid) = {}
         /\ Len(heap[conversations[sid]].messages) = 2

\* user and assistant messages alternate, starting with a user message and
\* ending with an assistant message
Alternates(messages) ==
  /\ Len(messages) % 2 = 0
  /\ \A i \in 1..Len(messages) :
       messages[i].role = IF i % 2 = 1 THEN "user" ELSE "assistant"

\* C36: whenever no turn is in progress on an id, the history of the session
\* stored under it alternates user and assistant messages, starts with a
\* user message and has even length, whatever happened in the turns before.
C36_HistoryAlternates ==
  \A sid \in DOMAIN conversations :
    InFlight(sid) = {} => Alternates(heap[conversations[sid]].messages)

\* C37: a turn that returns `routing` answers a confirmation question: the
\* last assistant message of the history the turn started with is a
\* confirmation question.
C37_RoutingAnswersConfirmationQuestion ==
  \A t \in Threads :
    Routed(t) => LastAssistantKind(th[t].pre.messages) = "confirmation"

\* decisions in the evaluator's output format (conversation_service.py
\* 225-234, confidence a number) with route=true, a catalogued agent and both
\* parameters
RouteDecisions ==
  {Decision(TRUE, p, c, w, <<>>, TRUE) :
      p \in {q \in EvalPairs : q[1] \in DOMAIN AgentIdOf},
      c \in {x \in ClientValues : Truthy(x)},
      w \in {x \in WaveValues : Truthy(x)}}

\* worker t holds such a decision and the session has both parameters
RouteTurn(t) ==
  /\ th[t].should_route
  /\ th[t].agent_name \in DOMAIN AgentIdOf
  /\ has_all_params(Sess(t))

\* C38: a turn in which the evaluator is reached and returns route=true with
\* a catalogued agent and both parameters, and no external call fails, goes
\* through: on a session with an open confirmation and a reply classified
\* affirmative it finalizes the session, removes it and returns `routing`;
\* on a session without one it opens a confirmation and returns
\* `confirmation`, so that the next such turn finalizes.  The session is
\* finalized and removed within two such turns.
C38_FinalizedWithinTwoTurns ==
  [][ \A t \in Threads :
        /\ \A d \in RouteDecisions :
             EvaluateWith(t, [kind |-> "ok", d |-> d]) => th'[t].pc = "confirm_check"
        /\ (th[t].pc = "affirm" /\ RouteTurn(t)) =>
             /\ (th[t].saw_awaiting /\ AffirmativeCheckWith(t, "yes")) =>
                  th'[t].pc = "finalize"
             /\ (~th[t].saw_awaiting /\ th'[t] # th[t]) =>
                  /\ th'[t].pc = "ask_confirmation"
                  /\ heap'[th[t].session].awaiting_confirmation
        /\ (th[t].pc = "ask_confirmation" /\ RouteTurn(t) /\ th'[t] # th[t]) =>
             /\ th'[t].pc = "done" /\ th'[t].result.type = "confirmation"
             /\ heap'[th[t].session].awaiting_confirmation
             /\ conversations'[th[t].session_id] = th[t].session
        /\ (th[t].pc = "finalize" /\ RouteTurn(t) /\ th'[t].pc \notin {"finalize", "fault"}) =>
             /\ th'[t].pc = "routing_message"
             /\ heap'[th[t].session].is_finalized
        /\ (th[t].pc = "routing_message" /\ RouteTurn(t) /\ th'[t] # th[t]) =>
             /\ th'[t].pc = "done" /\ th'[t].result.type = "routing"
             /\ th[t].session_id \notin DOMAIN conversations'
    ]_vars

\* a session has been finalized and removed by its second turn
C38_Witness ==
  \E t \in Threads :
    /\ Routed(t) /\ th[t].agent_name \in DOMAIN AgentIdOf
    /\ Len(th[t].pre.messages) = 2
    /\ LastAssistantKind(th[t].pre.messages) = "confirmation"
    /\ Sess(t).is_finalized /\ th[t].session_id \notin DOMAIN conversations
====
